---- MODULE Spec2Model ----
(***************************************************************************)
(* Model of ugpio.c: a user-space UIO program for an AXI GPIO block.       *)
(* main() opens /dev/uio0, resolves the region size from sysfs, maps the   *)
(* region, configures the GPIO and then calls wait_for_interrupt() for     *)
(* ever.  The program is single-threaded; the environment (the kernel UIO  *)
(* device, the sysfs file and the GPIO hardware) is nondeterministic.      *)
(*                                                                         *)
(* A 32-bit word is the pair <<hi, lo>> of its 16-bit halves, so that      *)
(* 0x80000000 and 0xFFFFFFFF are exact.                                    *)
(***************************************************************************)
EXTENDS Integers, Sequences, FiniteSets, TLC

VARIABLES
    pc,         \* the statement the program is at, or "exit"
    fd,         \* main: int fd, <<>> before it is assigned, then <<value>>
    sizeFile,   \* the sysfs size file as get_memory_size found it:
                \* [state |-> "unread" | "ENOENT" | "read", text |-> chars]
    gpio_size,  \* main: int gpio_size (a word), <<>> before it is assigned
    gpio_ptr,   \* main: void *gpio_ptr: "unset", "MAP_FAILED", "mapped" or,
                \* after munmap, "unmapped"
    mem,        \* the device registers, by byte offset
    reg,        \* wait_for_interrupt: unsigned int reg, <<>> before assigned
    exitCode,   \* <<>> while running, then <<status>>: what main returned
                \* or exit() was given
    mainLog,    \* effects of main() before the loop, in program order
    cycLog,     \* effects of the current (or last finished) call of
                \* wait_for_interrupt, in program order
    calls,      \* number of calls of wait_for_interrupt that got past read()
    reenables   \* number of calls that issued the reenable write()

vars == <<pc, fd, sizeFile, gpio_size, gpio_ptr, mem, reg, exitCode,
          mainLog, cycLog, calls, reenables>>

----------------------------------------------------------------------------
(* Bounds of the model *)

MaxCalls == 3

----------------------------------------------------------------------------
(* 32-bit words *)

W(hi, lo) == <<hi, lo>>
Zero == W(0, 0)

\* w * 16 + d, truncated to 32 bits
Shl4Add(w, d) ==
    W((w[1] * 16 + (w[2] \div 4096)) % 65536, (w[2] * 16 + d) % 65536)

\* the word read as a C int (two's complement)
ToInt(w) ==
    IF w[1] >= 32768 THEN (w[1] - 65536) * 65536 + w[2]
                     ELSE w[1] * 65536 + w[2]

----------------------------------------------------------------------------
(* Register offsets, ugpio.c lines 75-82 *)

GPIO_MAP_SIZE == W(1, 0)
GPIO_DATA_OFFSET == 0
GPIO_TRI_OFFSET == 4
GPIO_DATA2_OFFSET == 8
GPIO_TRI2_OFFSET == 12
GPIO_GLOBAL_IRQ == 284
GPIO_IRQ_CONTROL == 296
GPIO_IRQ_STATUS == 288

Offsets == {GPIO_DATA_OFFSET, GPIO_TRI_OFFSET, GPIO_DATA2_OFFSET,
            GPIO_TRI2_OFFSET, GPIO_GLOBAL_IRQ, GPIO_IRQ_CONTROL,
            GPIO_IRQ_STATUS}

\* mutant: the store goes through a 16-bit pointer and leaves the high half
gpio_write_halfword(m, offset, value) ==
    [m EXCEPT ![offset] = W(m[offset][1], value[2])]

\* gpio_write: one 32-bit store at gpio_base + offset
gpio_write(m, offset, value) == [m EXCEPT ![offset] = value]

\* gpio_read: one 32-bit load at gpio_base + offset
gpio_read(m, offset) == m[offset]

----------------------------------------------------------------------------
(* Inputs the environment can produce *)

\* what the hardware may hold in IRQ_STATUS and DATA2
StatusVals == {Zero, W(0, 1), W(0, 2), W(0, 3)}
DataVals == {Zero, W(0, 5), W(0, 10), W(65535, 65535)}

\* open(): -1 on failure, otherwise the lowest free descriptor
OpenRets == {-1, 0, 3}

\* read()/write() of sizeof(int) bytes: -1 on error, else bytes transferred
ReadRets == {-1, 2, 4}
WriteRets == {-1, 2, 4}

\* contents of /sys/class/uio/uio0/maps/map0/size, as characters
FileContents ==
    { <<"0","x","0","0","0","1","0","0","0","0","\n">>,
      <<"0","x","0","0","0","0","1","0","0","0","\n">>,
      <<"0","x","F","F","F","F","F","F","F","F","\n">>,
      <<"0","x","0","0","0","0","0","0","1","0","\n">>,
      <<"0","x","1","0","\n">>,
      <<"6","5","5","3","6","\n">>,
      <<"0","x","Z","Z","\n">>,
      <<>> }

\* values an uninitialized unsigned int may hold
GarbageVals == {Zero, W(0, 16), W(1, 0)}

----------------------------------------------------------------------------
(* fscanf(size_fp, "0x%08X", &size), ugpio.c line 145 *)

UpperHex == <<"0","1","2","3","4","5","6","7","8","9","A","B","C","D","E","F">>
LowerHex == <<"0","1","2","3","4","5","6","7","8","9","a","b","c","d","e","f">>

IsHexDigit(c) == \E i \in 1 .. 16 : UpperHex[i] = c \/ LowerHex[i] = c

HexVal(c) == (CHOOSE i \in 1 .. 16 : UpperHex[i] = c \/ LowerHex[i] = c) - 1

IsSpace(c) == c \in {" ", "\n", "\t"}

\* the maximum field width of the %08X conversion
ScanWidth == 8

\* index of the first character at or after i that is not white space
RECURSIVE SkipSpace(_, _)
SkipSpace(s, i) ==
    IF i <= Len(s) /\ IsSpace(s[i]) THEN SkipSpace(s, i + 1) ELSE i

\* number of hex digits at s[i..], at most `width` of them
RECURSIVE HexRun(_, _, _)
HexRun(s, i, width) ==
    IF width > 0 /\ i <= Len(s) /\ IsHexDigit(s[i])
    THEN 1 + HexRun(s, i + 1, width - 1)
    ELSE 0

\* the value of the n hex digits at s[i..], accumulated into acc
RECURSIVE HexValue(_, _, _, _)
HexValue(s, i, n, acc) ==
    IF n = 0 THEN acc
    ELSE HexValue(s, i + 1, n - 1, Shl4Add(acc, HexVal(s[i])))

\* The conversion: the literal characters '0' and 'x' must match exactly,
\* then %X skips white space and converts up to eight hex digits.  The
\* result is [ok |-> TRUE, value |-> w] when the conversion assigned, and
\* [ok |-> FALSE] when it did not (input or matching failure).
ScanSize(s) ==
    IF Len(s) >= 2 /\ s[1] = "0" /\ s[2] = "x"
    THEN LET i == SkipSpace(s, 3)
             n == HexRun(s, i, ScanWidth)
         IN IF n > 0 THEN [ok |-> TRUE, value |-> HexValue(s, i, n, Zero)]
                     ELSE [ok |-> FALSE]
    ELSE [ok |-> FALSE]

\* get_memory_size returns `size`: what fscanf stored, or, when fscanf stored
\* nothing, the indeterminate value of the uninitialized local
SizesReturned(s) ==
    IF ScanSize(s).ok THEN {ScanSize(s).value} ELSE GarbageVals

----------------------------------------------------------------------------
(* printf("GPIO_DATA2_OFFSET: 0x%d\n", reg), ugpio.c line 112 *)

DecChars == <<"0","1","2","3","4","5","6","7","8","9">>

\* the decimal digits of n >= 0
RECURSIVE DecDigits(_)
DecDigits(n) ==
    IF n < 10 THEN <<DecChars[n + 1]>>
    ELSE Append(DecDigits(n \div 10), DecChars[(n % 10) + 1])

\* %d: the argument taken as an int, in decimal, with a sign when negative
FormatD(w) ==
    IF ToInt(w) < 0 THEN <<"-">> \o DecDigits(0 - ToInt(w))
                    ELSE DecDigits(ToInt(w))

\* the characters the format prints after "GPIO_DATA2_OFFSET: "
FormatData2(w) == <<"0", "x">> \o FormatD(w)

----------------------------------------------------------------------------
(* Program order *)

\* mutant: the two interrupt-enable writes in the other order
MainStepsIrqSwapped == <<"banner", "open", "get_memory_size", "mmap",
                         "tri", "tri2", "irq_control", "global_irq">>

\* main(), lines 161-199: the statements before the loop
MainSteps == <<"banner", "open", "get_memory_size", "mmap",
               "tri", "tri2", "global_irq", "irq_control">>

\* mutant: the reenable write issued before the acknowledge
WaitStepsReenableEarly == <<"read", "reenable", "irq_status", "ack",
                            "data2", "printf">>

\* mutant: the reenable write left out
WaitStepsNoReenable == <<"read", "irq_status", "ack", "data2", "printf">>

\* wait_for_interrupt(), lines 103-124, called for ever from lines 210-212
WaitSteps == <<"read", "irq_status", "ack", "data2", "printf", "reenable">>

InMain(s) == \E i \in 1 .. Len(MainSteps) : MainSteps[i] = s
InWait(s) == \E i \in 1 .. Len(WaitSteps) : WaitSteps[i] = s

Index(seq, s) == CHOOSE i \in 1 .. Len(seq) : seq[i] = s

\* mutant: the loop runs once, as with while (0) or a stray break
LoopConditionFalse == FALSE

\* line 210: while (1)
LoopCondition == TRUE

\* the statement control reaches after statement s completes; when a call
\* of wait_for_interrupt returns, the loop condition decides between the
\* next call and the statements after the loop (lines 216-220)
Succ(s) ==
    IF InMain(s)
    THEN IF Index(MainSteps, s) < Len(MainSteps)
         THEN MainSteps[Index(MainSteps, s) + 1]
         ELSE WaitSteps[1]
    ELSE IF Index(WaitSteps, s) < Len(WaitSteps)
         THEN WaitSteps[Index(WaitSteps, s) + 1]
         ELSE IF LoopCondition THEN WaitSteps[1] ELSE "exit"

----------------------------------------------------------------------------
(* Conditions and values of the code *)

\* mutant: the result of open() is not checked
OpenCheckMissing(f) == FALSE

\* line 166: if (fd < 1)
OpenFailed(f) == f < 1

\* the platform page size, getpagesize() of line 185
PageSize == 4096

\* line 174: the length mmap is given is gpio_size converted to size_t.  The
\* call can succeed only for a non-zero length that does not exceed the
\* device's region (GPIO_MAP_SIZE); a negative int converts to a length
\* beyond any region.
MmapCanSucceed(size) == ToInt(size) > 0 /\ ToInt(size) <= ToInt(GPIO_MAP_SIZE)

\* mutant: the acknowledge is written whatever IRQ_STATUS read
PendingAlways(r) == TRUE

\* line 108: if (reg)
Pending(r) == r # Zero

\* mutant: the acknowledge clears channel 1 instead of channel 2
AckValueChannel1 == W(0, 1)

\* line 109: the value written to IRQ_STATUS
AckValue == W(0, 2)

\* line 97: int reenable = 1
ReenableValue == 1

\* mutant: both channels' interrupts enabled at startup
IrqControlBothChannels == W(0, 3)

\* lines 193-199: the configuration values
TriValue == Zero
Tri2Value == W(0, 15)
GlobalIrqValue == W(32768, 0)
IrqControlValue == W(0, 2)

\* the exit status of every failure path, lines 139, 168, 177
FailStatus == -1

----------------------------------------------------------------------------
(* Events recorded in mainLog and cycLog *)

EvPrint(text) == <<"printf", text>>
EvRegWrite(offset, value) == <<"gpio_write", offset, value>>
EvRegRead(offset, value) == <<"gpio_read", offset, value>>
EvChanRead(n) == <<"read", n>>
EvChanWrite(value, n) == <<"write", value, n>>
EvMmap(length) == <<"mmap", length>>

----------------------------------------------------------------------------
(* Initial state: the process has just entered main() *)

Init ==
    /\ pc = MainSteps[1]
    /\ fd = <<>>
    /\ sizeFile = [state |-> "unread", text |-> <<>>]
    /\ gpio_size = <<>>
    /\ gpio_ptr = "unset"
    /\ mem \in {[o \in Offsets |->
                   IF o = GPIO_IRQ_STATUS THEN st
                   ELSE IF o = GPIO_DATA2_OFFSET THEN d ELSE Zero] :
                st \in StatusVals, d \in DataVals}
    /\ reg = <<>>
    /\ exitCode = <<>>
    /\ mainLog = <<>>
    /\ cycLog = <<>>
    /\ calls = 0
    /\ reenables = 0

----------------------------------------------------------------------------
(* main() *)

\* line 161
Banner ==
    /\ pc = "banner"
    /\ mainLog' = Append(mainLog, EvPrint("GPIO UIO test."))
    /\ pc' = Succ(pc)
    /\ UNCHANGED <<fd, sizeFile, gpio_size, gpio_ptr, mem, reg, exitCode,
                   cycLog, calls, reenables>>

\* lines 165-169
Open ==
    /\ pc = "open"
    /\ \E f \in OpenRets :
         /\ fd' = <<f>>
         /\ IF OpenFailed(f)
            THEN /\ mainLog' = Append(mainLog,
                                      EvPrint("Invalid UIO device file:/dev/uio0."))
                 /\ exitCode' = <<FailStatus>>
                 /\ pc' = "exit"
            ELSE /\ mainLog' = mainLog
                 /\ exitCode' = exitCode
                 /\ pc' = Succ(pc)
    /\ UNCHANGED <<sizeFile, gpio_size, gpio_ptr, mem, reg, cycLog, calls, reenables>>

\* lines 171 and 127-149: gpio_size = get_memory_size(...)
GetMemorySize ==
    /\ pc = "get_memory_size"
    /\ \E opened \in BOOLEAN :
         IF ~opened
         THEN /\ sizeFile' = [state |-> "ENOENT", text |-> <<>>]
              /\ mainLog' = Append(mainLog,
                                   EvPrint("unable to open the uio size file"))
              /\ exitCode' = <<FailStatus>>
              /\ pc' = "exit"
              /\ gpio_size' = gpio_size
         ELSE \E f \in FileContents :
              /\ sizeFile' = [state |-> "read", text |-> f]
              /\ mainLog' = mainLog
              /\ exitCode' = exitCode
              /\ pc' = Succ(pc)
              /\ gpio_size' \in SizesReturned(f)
    /\ UNCHANGED <<fd, gpio_ptr, mem, reg, cycLog, calls, reenables>>

\* lines 174-178
Mmap ==
    /\ pc = "mmap"
    /\ \E ok \in {b \in BOOLEAN : b => MmapCanSucceed(gpio_size)} :
         IF ok
         THEN /\ gpio_ptr' = "mapped"
              /\ mainLog' = Append(mainLog, EvMmap(gpio_size))
              /\ exitCode' = exitCode
              /\ pc' = Succ(pc)
         ELSE /\ gpio_ptr' = "MAP_FAILED"
              /\ mainLog' = Append(Append(mainLog, EvMmap(gpio_size)),
                                   EvPrint("Mmap call failure."))
              /\ exitCode' = <<FailStatus>>
              /\ pc' = "exit"
    /\ UNCHANGED <<fd, sizeFile, gpio_size, mem, reg, cycLog, calls, reenables>>

\* a gpio_write statement of main()
MainWrite(step, offset, value) ==
    /\ pc = step
    /\ mem' = gpio_write(mem, offset, value)
    /\ mainLog' = Append(mainLog, EvRegWrite(offset, value))
    /\ pc' = Succ(pc)
    /\ UNCHANGED <<fd, sizeFile, gpio_size, gpio_ptr, reg, exitCode,
                   cycLog, calls, reenables>>

\* line 193
SetTri == MainWrite("tri", GPIO_TRI_OFFSET, TriValue)
\* line 194
SetTri2 == MainWrite("tri2", GPIO_TRI2_OFFSET, Tri2Value)
\* line 198
SetGlobalIrq == MainWrite("global_irq", GPIO_GLOBAL_IRQ, GlobalIrqValue)
\* line 199
SetIrqControl == MainWrite("irq_control", GPIO_IRQ_CONTROL, IrqControlValue)

----------------------------------------------------------------------------
(* wait_for_interrupt() *)

\* line 103: the blocking read; its result is not looked at
WaitRead ==
    /\ pc = "read"
    /\ calls < MaxCalls
    /\ \E n \in ReadRets : cycLog' = <<EvChanRead(n)>>
    /\ calls' = calls + 1
    /\ pc' = Succ(pc)
    /\ UNCHANGED <<fd, sizeFile, gpio_size, gpio_ptr, mem, reg, exitCode,
                   mainLog, reenables>>

\* line 107
ReadStatus ==
    /\ pc = "irq_status"
    /\ reg' = gpio_read(mem, GPIO_IRQ_STATUS)
    /\ cycLog' = Append(cycLog, EvRegRead(GPIO_IRQ_STATUS, reg'))
    /\ pc' = Succ(pc)
    /\ UNCHANGED <<fd, sizeFile, gpio_size, gpio_ptr, mem, exitCode,
                   mainLog, calls, reenables>>

\* mutant: the acknowledge goes to IRQ_CONTROL (0x128) instead of
\* IRQ_STATUS (0x120)
AckWrongRegister ==
    /\ pc = "ack"
    /\ IF Pending(reg)
       THEN /\ mem' = gpio_write(mem, GPIO_IRQ_CONTROL, AckValue)
            /\ cycLog' = Append(cycLog, EvRegWrite(GPIO_IRQ_CONTROL, AckValue))
       ELSE /\ mem' = mem
            /\ cycLog' = cycLog
    /\ pc' = Succ(pc)
    /\ UNCHANGED <<fd, sizeFile, gpio_size, gpio_ptr, reg, exitCode,
                   mainLog, calls, reenables>>

\* lines 108-109
Ack ==
    /\ pc = "ack"
    /\ IF Pending(reg)
       THEN /\ mem' = gpio_write(mem, GPIO_IRQ_STATUS, AckValue)
            /\ cycLog' = Append(cycLog, EvRegWrite(GPIO_IRQ_STATUS, AckValue))
       ELSE /\ mem' = mem
            /\ cycLog' = cycLog
    /\ pc' = Succ(pc)
    /\ UNCHANGED <<fd, sizeFile, gpio_size, gpio_ptr, reg, exitCode,
                   mainLog, calls, reenables>>

\* line 111
ReadData2 ==
    /\ pc = "data2"
    /\ reg' = gpio_read(mem, GPIO_DATA2_OFFSET)
    /\ cycLog' = Append(cycLog, EvRegRead(GPIO_DATA2_OFFSET, reg'))
    /\ pc' = Succ(pc)
    /\ UNCHANGED <<fd, sizeFile, gpio_size, gpio_ptr, mem, exitCode,
                   mainLog, calls, reenables>>

\* line 112
Printf ==
    /\ pc = "printf"
    /\ cycLog' = Append(cycLog, EvPrint(FormatData2(reg)))
    /\ pc' = Succ(pc)
    /\ UNCHANGED <<fd, sizeFile, gpio_size, gpio_ptr, mem, reg, exitCode,
                   mainLog, calls, reenables>>

\* lines 124-125: the write; its result is not looked at; the call returns
Reenable ==
    /\ pc = "reenable"
    /\ \E n \in WriteRets :
         cycLog' = Append(cycLog, EvChanWrite(ReenableValue, n))
    /\ reenables' = reenables + 1
    /\ pc' = Succ(pc)
    /\ IF pc' = "exit"
       THEN \* lines 216-220: munmap(gpio_ptr, gpio_size); return 0
            /\ gpio_ptr' = "unmapped"
            /\ exitCode' = <<0>>
       ELSE UNCHANGED <<gpio_ptr, exitCode>>
    /\ UNCHANGED <<fd, sizeFile, gpio_size, mem, reg, mainLog, calls>>

----------------------------------------------------------------------------
(* The hardware: IRQ_STATUS and DATA2 change on their own (volatile) *)

Hardware ==
    /\ gpio_ptr = "mapped"
    /\ \E st \in StatusVals, d \in DataVals :
         mem' = [mem EXCEPT ![GPIO_IRQ_STATUS] = st, ![GPIO_DATA2_OFFSET] = d]
    /\ UNCHANGED <<pc, fd, sizeFile, gpio_size, gpio_ptr, reg, exitCode,
                   mainLog, cycLog, calls, reenables>>

----------------------------------------------------------------------------

Program ==
    \/ Banner \/ Open \/ GetMemorySize \/ Mmap
    \/ SetTri \/ SetTri2 \/ SetGlobalIrq \/ SetIrqControl
    \/ WaitRead \/ ReadStatus \/ Ack \/ ReadData2 \/ Printf \/ Reenable

Next == Program \/ Hardware

Spec == Init /\ [][Next]_vars

\* The statements after read() do not block: once one is enabled the
\* single thread executes it.
Handling ==
    ReadStatus \/ Ack \/ ReadData2 \/ Printf \/ Reenable

LiveSpec == Init /\ [][Next]_vars /\ WF_vars(Handling)

----------------------------------------------------------------------------
(* Vocabulary of the properties *)

IsRegWrite(e) == e[1] = "gpio_write"
IsRegRead(e) == e[1] = "gpio_read"
IsAck(e) == IsRegWrite(e) /\ e[2] = GPIO_IRQ_STATUS
IsStatusRead(e) == IsRegRead(e) /\ e[2] = GPIO_IRQ_STATUS
IsChanRead(e) == e[1] = "read"
IsChanWrite(e) == e[1] = "write"
IsPrint(e) == e[1] = "printf"

Positions(log, P(_)) == {i \in 1 .. Len(log) : P(log[i])}
Count(log, P(_)) == Cardinality(Positions(log, P))
RegWrites(log) == SelectSeq(log, IsRegWrite)

\* a call of wait_for_interrupt has returned and the next has not read yet
CycleDone == pc = "read" /\ cycLog # <<>>

\* the value IRQ_STATUS read in the current cycle was zero / was not zero
StatusReadZero ==
    \E i \in 1 .. Len(cycLog) : IsStatusRead(cycLog[i]) /\ cycLog[i][3] = Zero
StatusReadNonZero ==
    \E i \in 1 .. Len(cycLog) : IsStatusRead(cycLog[i]) /\ cycLog[i][3] # Zero

\* the read() that started the current cycle transferred fewer than 4 bytes
ShortRead == cycLog # <<>> /\ IsChanRead(cycLog[1]) /\ cycLog[1][2] # 4

\* the last effect of the cycle is a reenable write() that transferred
\* fewer than 4 bytes
ShortWrite ==
    /\ cycLog # <<>>
    /\ IsChanWrite(cycLog[Len(cycLog)])
    /\ cycLog[Len(cycLog)][3] # 4

\* the program has terminated with a failure status
Failed == pc = "exit" /\ exitCode # <<>> /\ exitCode[1] # 0

----------------------------------------------------------------------------
(* C1 *)

\* C1: in every call of wait_for_interrupt, a write to IRQ_STATUS comes
\* strictly before the write of the reenable value on the channel; no
\* reenable write is followed in the same call by a write to IRQ_STATUS.
C1_AckBeforeReenable ==
    \A i, j \in 1 .. Len(cycLog) :
        IsAck(cycLog[i]) /\ IsChanWrite(cycLog[j]) => i < j

C1_Witness ==
    /\ Count(cycLog, IsAck) = 1
    /\ Count(cycLog, IsChanWrite) = 1

----------------------------------------------------------------------------
(* C2 *)

\* C2: when the read() on the channel transfers fewer than 4 bytes the loop
\* fails: in that call no register is read or written, nothing is printed
\* and no reenable value is written.
C2_ShortReadStops ==
    ShortRead => Len(cycLog) = 1

----------------------------------------------------------------------------
(* C3 *)

C3_Alternation ==
    /\ reenables <= calls
    /\ calls <= reenables + 1
    /\ pc = "read" => calls = reenables
    /\ Count(cycLog, IsChanRead) <= 1
    /\ Count(cycLog, IsChanWrite) <= 1
    /\ \A i \in 1 .. Len(cycLog) :
         /\ IsChanRead(cycLog[i]) => i = 1
         /\ IsChanWrite(cycLog[i]) =>
              i = Len(cycLog) /\ cycLog[i][2] = 1 /\ pc = "read"
    /\ CycleDone => IsChanRead(cycLog[1]) /\ IsChanWrite(cycLog[Len(cycLog)])

\* C3: after every read() on the channel the call completes with exactly one
\* write of the value 1 before the next read(), whatever the registers
\* held: reads and reenable writes alternate, starting with a read, and
\* every call that got past read() eventually issues its reenable write.
C3_ReadThenReenable ==
    /\ []C3_Alternation
    /\ \A k \in 1 .. MaxCalls : (calls = k) ~> (reenables = k)

C3_Witness ==
    /\ CycleDone
    /\ calls = 2
    /\ reenables = 2
    /\ cycLog[1] = EvChanRead(4)
    /\ IsChanWrite(cycLog[Len(cycLog)])

----------------------------------------------------------------------------
(* C4 *)

\* C4: in a call where IRQ_STATUS reads zero the program performs no
\* register write at all.
C4_NoWriteWhenStatusZero ==
    StatusReadZero => Count(cycLog, IsRegWrite) = 0

C4_Witness ==
    /\ CycleDone
    /\ StatusReadZero
    /\ mem[GPIO_IRQ_STATUS] = Zero

----------------------------------------------------------------------------
(* C5 *)

\* C5: in a call where IRQ_STATUS reads a non-zero value the program writes
\* the value 2 to IRQ_STATUS exactly once, whichever bits were set; no
\* other value is ever written to IRQ_STATUS.
C5_AckIsTwoOnce ==
    /\ StatusReadNonZero /\ pc \notin {"irq_status", "ack"} =>
         /\ Count(cycLog, IsAck) = 1
         /\ Count(cycLog, IsRegWrite) = 1
    /\ \A i \in 1 .. Len(cycLog) :
         IsAck(cycLog[i]) => cycLog[i][3] = W(0, 2)
    /\ \A i \in 1 .. Len(mainLog) : ~IsAck(mainLog[i])

C5_Witness ==
    /\ CycleDone
    /\ \E i \in 1 .. Len(cycLog) :
         IsStatusRead(cycLog[i]) /\ cycLog[i][3] = W(0, 1)
    /\ \E i \in 1 .. Len(cycLog) :
         cycLog[i] = EvRegWrite(GPIO_IRQ_STATUS, W(0, 2))

----------------------------------------------------------------------------
(* C6 *)

\* C6: when the reenable write() is short or fails, the loop fails instead
\* of returning to Waiting: the program is never back at the blocking read
\* after such a write.
C6_ShortWriteFails ==
    ShortWrite => Failed

----------------------------------------------------------------------------
(* C7 *)

\* the text is 0xXXXXXXXX: "0x", eight hex digits, and at most a newline
MatchesSizePattern(text) ==
    /\ Len(text) \in {10, 11}
    /\ text[1] = "0"
    /\ text[2] = "x"
    /\ \A i \in 3 .. 10 : IsHexDigit(text[i])
    /\ Len(text) = 11 => text[11] = "\n"

\* C7: for any content of the size file that is not of the form 0xXXXXXXXX
\* (an empty file included) get_memory_size fails: the process terminates
\* with a non-zero status, and no size reaches the caller or mmap.
C7_BadContentFails ==
    sizeFile.state = "read" /\ ~MatchesSizePattern(sizeFile.text) =>
        /\ Failed
        /\ gpio_size = <<>>
        /\ Count(mainLog, LAMBDA e : e[1] = "mmap") = 0

----------------------------------------------------------------------------
(* C8 *)

NoDeviceAccess ==
    /\ Count(mainLog, IsRegWrite) = 0
    /\ Count(mainLog, IsRegRead) = 0
    /\ cycLog = <<>>
    /\ calls = 0
    /\ reenables = 0

Fatal(text) ==
    /\ pc = "exit"
    /\ exitCode = <<-1>>
    /\ mainLog # <<>>
    /\ mainLog[Len(mainLog)] = EvPrint(text)
    /\ NoDeviceAccess

\* C8: when open() fails, when the size file cannot be opened or when mmap
\* fails, the process prints its diagnostic and terminates with status -1
\* without any register access and without any read or write on the
\* channel.
C8_StartupFailureFatal ==
    /\ (fd # <<>> /\ fd[1] < 0) => Fatal("Invalid UIO device file:/dev/uio0.")
    /\ sizeFile.state = "ENOENT" => Fatal("unable to open the uio size file")
    /\ gpio_ptr = "MAP_FAILED" => Fatal("Mmap call failure.")

C8_Witness ==
    /\ gpio_ptr = "MAP_FAILED"
    /\ pc = "exit"
    /\ exitCode = <<-1>>

----------------------------------------------------------------------------
(* C9 *)

\* the number a reader of the line takes from the field after the colon:
\* a field that starts with 0x is a hexadecimal literal
Reported(text) ==
    IF /\ Len(text) > 2
       /\ text[1] = "0"
       /\ text[2] = "x"
       /\ \A i \in 3 .. Len(text) : IsHexDigit(text[i])
    THEN HexValue(text, 3, Len(text) - 2, Zero)
    ELSE <<>>

\* the effects of a whole call, given what the channel and registers gave
CycleEffects(n, st, d, text, k) ==
    <<EvChanRead(n), EvRegRead(GPIO_IRQ_STATUS, st)>>
    \o (IF st # Zero THEN <<EvRegWrite(GPIO_IRQ_STATUS, W(0, 2))>> ELSE <<>>)
    \o <<EvRegRead(GPIO_DATA2_OFFSET, d), EvPrint(text), EvChanWrite(1, k)>>

\* the effects of a whole call are in the order the claim gives, whatever
\* text is printed
HandlingOrder ==
    CycleDone =>
        \E n \in ReadRets, st \in StatusVals, d \in DataVals, k \in WriteRets :
            cycLog = CycleEffects(n, st, d, cycLog[Len(cycLog) - 1][2], k)

\* C9: every call reports exactly one DATA2 value, equal to the content of
\* DATA2 when it was read, after the IRQ_STATUS read (and acknowledge) and
\* before the reenable write; the effects are: read IRQ_STATUS, write 2 to
\* IRQ_STATUS when it was non-zero, read DATA2, report, write 1 to the
\* channel.
C9_ReportsData2 ==
    CycleDone =>
        \E n \in ReadRets, st \in StatusVals, d \in DataVals, k \in WriteRets :
            /\ cycLog = CycleEffects(n, st, d, cycLog[Len(cycLog) - 1][2], k)
            /\ Reported(cycLog[Len(cycLog) - 1][2]) = d

----------------------------------------------------------------------------
(* C10 *)

ConfigWrites ==
    <<EvRegWrite(4, W(0, 0)), EvRegWrite(12, W(0, 15)),
      EvRegWrite(284, W(32768, 0)), EvRegWrite(296, W(0, 2))>>

IsPrefix(a, b) == Len(a) <= Len(b) /\ a = SubSeq(b, 1, Len(a))

IsConfigWrite(e) ==
    IsRegWrite(e) /\ e[2] \in {GPIO_TRI_OFFSET, GPIO_TRI2_OFFSET,
                               GPIO_GLOBAL_IRQ, GPIO_IRQ_CONTROL}

\* C10: after a successful mmap the program writes TRI := 0, TRI2 := 0xF,
\* GLOBAL_IRQ := 0x80000000 and IRQ_CONTROL := 2, each once and in that
\* order, and all four before the first read() on the channel.
C10_ConfigOnceBeforeLoop ==
    /\ IsPrefix(RegWrites(mainLog), ConfigWrites)
    /\ RegWrites(mainLog) # <<>> => gpio_ptr = "mapped"
    /\ InWait(pc) => RegWrites(mainLog) = ConfigWrites
    /\ (calls > 0 \/ cycLog # <<>>) => RegWrites(mainLog) = ConfigWrites
    /\ Count(mainLog, IsChanRead) = 0
    /\ Count(cycLog, IsConfigWrite) = 0

C10_Witness ==
    /\ calls = 1
    /\ pc = "irq_status"
    /\ RegWrites(mainLog) = ConfigWrites
    /\ mem[GPIO_GLOBAL_IRQ] = W(32768, 0)

----------------------------------------------------------------------------
(* C11 *)

\* startup has succeeded: the region is or was mapped and configured
StartupDone ==
    /\ gpio_ptr \in {"mapped", "unmapped"}
    /\ RegWrites(mainLog) = ConfigWrites

\* C11: once startup has succeeded the program is always in Waiting (at the
\* blocking read) or Handling (at a later statement of wait_for_interrupt):
\* it never terminates, never unmaps the region and never returns 0.
C11_NoTerminalState ==
    /\ StartupDone =>
         /\ InWait(pc)
         /\ pc # "exit"
         /\ exitCode = <<>>
         /\ gpio_ptr = "mapped"
    /\ exitCode # <<0>>
    /\ gpio_ptr # "unmapped"

C11_Witness ==
    /\ StartupDone
    /\ pc = "read"
    /\ calls = 2
    /\ reenables = 2
    /\ exitCode = <<>>

----------------------------------------------------------------------------
(* C12: gpio_write and gpio_read on plain memory *)

\* word offsets inside a region of GPIO_MAP_SIZE bytes, first and last included
RtOffsets == {o \in {0, 4, 288, 65532} : o + 4 <= ToInt(GPIO_MAP_SIZE)}

\* 32-bit values, with all-zero, all-one and top-bit-only words
RtValues == {Zero, W(0, 1), W(32768, 0), W(65535, 65535)}

\* any content of the region; nothing else of the program has run
RtInit ==
    /\ pc = "rt_write"
    /\ mem \in [RtOffsets -> {Zero, W(65535, 65535)}]
    /\ fd = <<>>
    /\ sizeFile = [state |-> "unread", text |-> <<>>]
    /\ gpio_size = GPIO_MAP_SIZE
    /\ gpio_ptr = "mapped"
    /\ reg = <<>>
    /\ exitCode = <<>>
    /\ mainLog = <<>>
    /\ cycLog = <<>>
    /\ calls = 0
    /\ reenables = 0

\* gpio_write(r, o, v)
RtWrite ==
    /\ pc = "rt_write"
    /\ \E o \in RtOffsets, v \in RtValues :
         /\ mem' = gpio_write(mem, o, v)
         /\ cycLog' = <<EvRegWrite(o, v)>>
    /\ pc' = "rt_read"
    /\ UNCHANGED <<fd, sizeFile, gpio_size, gpio_ptr, reg, exitCode,
                   mainLog, calls, reenables>>

\* gpio_read(r, o) at the offset just written
RtRead ==
    /\ pc = "rt_read"
    /\ reg' = gpio_read(mem, cycLog[1][2])
    /\ cycLog' = Append(cycLog, EvRegRead(cycLog[1][2], reg'))
    /\ pc' = "rt_write"
    /\ UNCHANGED <<fd, sizeFile, gpio_size, gpio_ptr, mem, exitCode,
                   mainLog, calls, reenables>>

RtNext == RtWrite \/ RtRead

RoundTripSpec == RtInit /\ [][RtNext]_vars

\* C12: on plain memory, for every in-bounds offset o and every 32-bit
\* value v, gpio_write(r, o, v) followed by gpio_read(r, o) returns v.
C12_RoundTrip ==
    Len(cycLog) = 2 =>
        /\ IsRegWrite(cycLog[1])
        /\ IsRegRead(cycLog[2])
        /\ cycLog[2][2] = cycLog[1][2]
        /\ cycLog[2][3] = cycLog[1][3]
        /\ reg = cycLog[1][3]

C12_Witness ==
    /\ Len(cycLog) = 2
    /\ cycLog[1] = EvRegWrite(65532, W(32768, 0))
    /\ reg = W(32768, 0)
    /\ mem[0] = W(65535, 65535)

----------------------------------------------------------------------------
(* C13 *)

PageMultiple(size) == ToInt(size) > 0 /\ ToInt(size) % PageSize = 0

\* C13: whenever the program proceeds past mmap the length it mapped is a
\* positive multiple of the page size; for any other size returned by
\* get_memory_size the mapping step fails and the process terminates.
C13_MappedLengthPageMultiple ==
    /\ gpio_ptr = "mapped" => PageMultiple(gpio_size)
    /\ (gpio_size # <<>> /\ pc # "mmap" /\ ~PageMultiple(gpio_size)) =>
         Failed /\ gpio_ptr = "MAP_FAILED"

----------------------------------------------------------------------------
(* C14 *)

InRegion(e) == e[2] >= 0 /\ e[2] + 4 <= ToInt(gpio_size)

\* C14: every register access of the program, at startup and in the loop,
\* addresses a 32-bit word inside [0, length) of the mapped region, for
\* every size get_memory_size can return and mmap accepts.
C14_AccessesInRegion ==
    /\ \A i \in 1 .. Len(mainLog) :
         IsRegWrite(mainLog[i]) \/ IsRegRead(mainLog[i]) => InRegion(mainLog[i])
    /\ \A i \in 1 .. Len(cycLog) :
         IsRegWrite(cycLog[i]) \/ IsRegRead(cycLog[i]) => InRegion(cycLog[i])

----------------------------------------------------------------------------
(* C15 *)

OpenDiagnosed ==
    \E i \in 1 .. Len(mainLog) :
        mainLog[i] = EvPrint("Invalid UIO device file:/dev/uio0.")

\* C15: the program terminates with the 'Invalid UIO device file' diagnostic
\* if and only if open() failed: every successful open, whatever descriptor
\* it returns, lets startup go on to get_memory_size.
C15_OpenErrorIffOpenFailed ==
    fd # <<>> =>
        /\ OpenDiagnosed <=> fd[1] < 0
        /\ fd[1] >= 0 => sizeFile.state # "unread" \/ pc = "get_memory_size"

----------------------------------------------------------------------------
(* C16 *)

\* the registers holding what startup wrote, and DATA still as it was
ConfigHeld ==
    /\ mem[GPIO_TRI_OFFSET] = W(0, 0)
    /\ mem[GPIO_TRI2_OFFSET] = W(0, 15)
    /\ mem[GPIO_GLOBAL_IRQ] = W(32768, 0)
    /\ mem[GPIO_IRQ_CONTROL] = W(0, 2)
    /\ mem[GPIO_DATA_OFFSET] = W(0, 0)

\* a statement of wait_for_interrupt executes (the hardware leaves pc alone)
LoopStep == InWait(pc) /\ pc' # pc

\* C16: after startup configuration the only register the program writes
\* is IRQ_STATUS: no statement of wait_for_interrupt changes TRI, TRI2,
\* GLOBAL_IRQ, IRQ_CONTROL, DATA or DATA2, and the configuration written at
\* startup stays in place for the whole run.
C16_OnlyStatusWritten ==
    /\ [](InWait(pc) =>
            /\ ConfigHeld
            /\ \A i \in 1 .. Len(cycLog) :
                 IsRegWrite(cycLog[i]) => cycLog[i][2] = GPIO_IRQ_STATUS)
    /\ [][LoopStep =>
            \A o \in Offsets \ {GPIO_IRQ_STATUS} : mem'[o] = mem[o]]_vars

C16_Witness ==
    /\ CycleDone
    /\ calls = 2
    /\ Count(cycLog, IsAck) = 1
    /\ ConfigHeld

----------------------------------------------------------------------------
(* C17 *)

\* bitwise AND of two naturals
RECURSIVE BitAnd(_, _)
BitAnd(a, b) ==
    IF a = 0 \/ b = 0 THEN 0
    ELSE (a % 2) * (b % 2) + 2 * BitAnd(a \div 2, b \div 2)

WordAnd(v, w) == W(BitAnd(v[1], w[1]), BitAnd(v[2], w[2]))

\* the bits of v are all among the bits of w
Covers(w, v) == WordAnd(v, w) = v

\* the mask startup wrote to IRQ_CONTROL, Zero before it did
EnabledMask ==
    LET at == Positions(mainLog,
                        LAMBDA e : IsRegWrite(e) /\ e[2] = GPIO_IRQ_CONTROL)
    IN IF at = {} THEN Zero ELSE mainLog[CHOOSE i \in at : TRUE][3]

\* the bits written to IRQ_STATUS in the current call, Zero when none
AckedMask ==
    LET at == Positions(cycLog, IsAck)
    IN IF at = {} THEN Zero ELSE cycLog[CHOOSE i \in at : TRUE][3]

\* the value IRQ_STATUS read in the current call
StatusRead ==
    cycLog[CHOOSE i \in 1 .. Len(cycLog) : IsStatusRead(cycLog[i])][3]

ReenableSent == \E i \in 1 .. Len(cycLog) : IsChanWrite(cycLog[i])

\* C17: the mask written to IRQ_CONTROL at startup is the mask written to
\* IRQ_STATUS on acknowledge, so whenever the reenable value is sent after
\* a non-zero IRQ_STATUS read, every status bit that is enabled and was
\* pending at that read has been acknowledged in that call.
C17_EnabledEqualsAcked ==
    /\ InWait(pc) => EnabledMask = W(0, 2)
    /\ (StatusReadNonZero /\ ReenableSent) =>
         /\ AckedMask = EnabledMask
         /\ Covers(AckedMask, WordAnd(StatusRead, EnabledMask))

C17_Witness ==
    /\ ReenableSent
    /\ StatusReadNonZero
    /\ StatusRead = W(0, 3)
    /\ AckedMask = W(0, 2)
    /\ EnabledMask = W(0, 2)

====
